---- MODULE Spec2Model ----
(***************************************************************************)
(* Model of custom_components/iptv_media_source/media_source.py:           *)
(* the M3U parser loop of async_parse_m3u, the module-level cache          *)
(* PARSED_M3U_CACHE with its 300 second freshness test, and concurrent     *)
(* calls of async_parse_m3u suspended at the network fetch; the browse and *)
(* resolve requests of IPTVMediaSourcePlatform; and the config and options *)
(* flows of config_flow.py that create and edit the configuration entries. *)
(*                                                                         *)
(* Text is modelled as a sequence of symbols: the symbol " " is one        *)
(* whitespace character, every other symbol is a run of non-whitespace,    *)
(* non-comma, non-quote characters.  A playlist line is modelled by its    *)
(* tokens: kind, duration validity, the attribute list in line order, the  *)
(* text after the final comma, and for a URL line its scheme and rest.     *)
(***************************************************************************)
EXTENDS Integers, Sequences, FiniteSets, TLC

VARIABLES
    cache,                  \* PARSED_M3U_CACHE: dict url -> {timestamp, channels}
    now,                    \* time.time()
    fetches,                \* per url: number of session.get requests issued
    task,                   \* per task: frame of one async_parse_m3u call
    m3u_url,                \* parser run: the playlist url argument
    lines,                  \* parser run: content.splitlines()
    line_num,               \* parser run: number of lines consumed by the loop
    channels,               \* parser run: the local list being built
    current_channel_info,   \* parser run: the pending metadata dict
    raised,                 \* parser run: TRUE once line 122 raised AttributeError
    entries,                \* hass.config_entries.async_entries(DOMAIN)
    request,                \* per task: the host's browse or resolve request
    flow                    \* the result of the last config or options flow step

cvars == <<cache, now, fetches, task>>
pvars == <<m3u_url, lines, line_num, channels, current_channel_info, raised>>
bvars == <<entries, request, flow>>
vars == <<cache, now, fetches, task, m3u_url, lines, line_num, channels,
          current_channel_info, raised, entries, request, flow>>

----------------------------------------------------------------------------
(* Bounds *)
MaxFetches == 2
TickStep == 150
MaxTime == 450
MaxLines == 4
MaxAttrs == 3
MaxChannels == 3

(* Program constants *)
M3U_CACHE_SECONDS == 300

Tasks == {"t1", "t2"}
Urls == {"http://a/x.m3u", "http://b/y.m3u"}
FriendlyNames == {"Home TV"}

----------------------------------------------------------------------------
(* Python values *)
None == <<>>
Some(v) == <<v>>

WS == " "
UNNAMED_CHANNEL == <<"Unnamed Channel">>
UNCATEGORIZED == <<"Uncategorized">>

\* str.strip(): drop leading and trailing whitespace symbols
RECURSIVE LStrip(_)
LStrip(s) ==
    IF s = <<>> THEN <<>>
    ELSE IF Head(s) = WS THEN LStrip(Tail(s)) ELSE s

RECURSIVE RStrip(_)
RStrip(s) ==
    IF s = <<>> THEN <<>>
    ELSE IF s[Len(s)] = WS THEN RStrip(SubSeq(s, 1, Len(s) - 1)) ELSE s

Strip(s) == RStrip(LStrip(s))

----------------------------------------------------------------------------
(* Playlist lines *)
NoAttrs == <<>>

Blank ==
    [kind |-> "blank", dur |-> FALSE, attrs |-> NoAttrs, name |-> <<>>,
     scheme |-> "", rest |-> ""]

Other(text) ==
    [kind |-> "other", dur |-> FALSE, attrs |-> NoAttrs, name |-> <<>>,
     scheme |-> "", rest |-> text]

UrlLine(scheme, rest) ==
    [kind |-> "url", dur |-> FALSE, attrs |-> NoAttrs, name |-> <<>>,
     scheme |-> scheme, rest |-> rest]

\* "#EXTINF:" <duration> { " " key="value" } "," <name>
Extinf(dur, attrs, name) ==
    [kind |-> "extinf", dur |-> dur, attrs |-> attrs, name |-> name,
     scheme |-> "", rest |-> ""]

Attr(k, v) == [k |-> k, v |-> v]

\* line.startswith("http://") or line.startswith("https://")
IsHttpUrl(line) ==
    line.kind = "url" /\ line.scheme \in {"http://", "https://"}

----------------------------------------------------------------------------
(* EXTINF_REGEX *)

\* (?:.*?\s+key="([^"]*)")? tried at attribute position from: the lazy .*?
\* stops at the first occurrence of the key at or after from; 0 when the
\* optional group does not participate.
RECURSIVE FindAttr(_, _, _)
FindAttr(attrs, key, from) ==
    IF from > Len(attrs) THEN 0
    ELSE IF attrs[from].k = key THEN from
    ELSE FindAttr(attrs, key, from + 1)

GroupEnd(i, from) == IF i = 0 THEN from ELSE i + 1
GroupVal(attrs, i) == IF i = 0 THEN None ELSE Some(attrs[i].v)

\* The four optional groups are consecutive in the pattern, so each one
\* searches only to the right of where the previous one ended.
RegexGroups(attrs) ==
    LET i1 == FindAttr(attrs, "tvg-id", 1)
        p1 == GroupEnd(i1, 1)
        i2 == FindAttr(attrs, "tvg-name", p1)
        p2 == GroupEnd(i2, p1)
        i3 == FindAttr(attrs, "tvg-logo", p2)
        p3 == GroupEnd(i3, p2)
        i4 == FindAttr(attrs, "group-title", p3)
    IN  [tvg_id |-> GroupVal(attrs, i1), tvg_name |-> GroupVal(attrs, i2),
         tvg_logo |-> GroupVal(attrs, i3), group_title |-> GroupVal(attrs, i4)]

\* EXTINF_REGEX.match(line).groupdict(), or None without a match.  The line
\* was stripped, so trailing whitespace of the name is gone, and ,\s* eats
\* its leading whitespace; (?P<name>[^,]+)$ needs at least one character.
RegexMatch(line) ==
    IF line.kind = "extinf" /\ line.dur /\ Strip(line.name) # <<>>
    THEN LET g == RegexGroups(line.attrs)
         IN  Some([tvg_id |-> g.tvg_id, tvg_name |-> g.tvg_name,
                   tvg_logo |-> g.tvg_logo, group_title |-> g.group_title,
                   name |-> Some(Strip(line.name))])
    ELSE None

\* not x, for x a str or None
Falsy(x) == x = None \/ x = Some(<<>>)

\* lines 110-115: name fallbacks applied to the matched dict
NameFallback(d) ==
    LET d1 == IF Falsy(d.name) /\ ~Falsy(d.tvg_name)
              THEN [d EXCEPT !.name = d.tvg_name] ELSE d
    IN  IF d1.name = None THEN [d1 EXCEPT !.name = Some(UNNAMED_CHANNEL)] ELSE d1

\* the back-reference filled with the stream instead of the playlist
ChannelDictWrongOrigin(info, line, url) ==
    [name |-> Strip(info.name[1]),
     url |-> <<line.scheme, line.rest>>,
     logo |-> IF Falsy(info.tvg_logo) THEN None ELSE info.tvg_logo,
     group |-> Strip(info.group_title[1]),
     original_m3u_url |-> line.rest]

\* lines 120-132: the record appended for a URL line; info is the pending dict
ChannelDict(info, line, url) ==
    [name |-> Strip(info.name[1]),
     url |-> <<line.scheme, line.rest>>,
     logo |-> IF Falsy(info.tvg_logo) THEN None ELSE info.tvg_logo,
     group |-> Strip(info.group_title[1]),
     original_m3u_url |-> url]

\* One iteration of the loop at lines 102-139 on parser state
\* st = [channels, info, raised]; info is {} (None) or the pending dict.
LoopBody(st, line, url) ==
    IF st.raised \/ line.kind = "blank" THEN st
    ELSE LET m == RegexMatch(line) IN
         IF m # None
         THEN [st EXCEPT !.info = Some(NameFallback(m[1]))]
         ELSE IF st.info # None /\ IsHttpUrl(line)
         THEN IF st.info[1].group_title = None
              THEN [st EXCEPT !.raised = TRUE]   \* None.strip() at line 122
              ELSE [channels |-> Append(st.channels,
                                        ChannelDict(st.info[1], line, url)),
                    info |-> None, raised |-> FALSE]
         ELSE st

ParserStart == [channels |-> <<>>, info |-> None, raised |-> FALSE]

RECURSIVE ParseFrom(_, _, _, _)
ParseFrom(st, text, i, url) ==
    IF i > Len(text) THEN st
    ELSE ParseFrom(LoopBody(st, text[i], url), text, i + 1, url)

\* lines 95-143 as a function of the fetched content
ParseM3U(text, url) == ParseFrom(ParserStart, text, 1, url)

----------------------------------------------------------------------------
(* Responses the playlist server can give *)
ExtOne ==
    Extinf(TRUE, <<Attr("tvg-logo", <<"l1.png">>),
                   Attr("group-title", <<"News">>)>>, <<"Channel", WS, "One">>)
ExtTwo ==
    Extinf(TRUE, <<Attr("group-title", <<WS, "Sport">>)>>, <<WS, "Two">>)
ExtNoGroup ==
    Extinf(TRUE, NoAttrs, <<"Three">>)

PlaylistA == <<Other("#EXTM3U"), ExtOne, UrlLine("http://", "s/1.m3u8")>>
PlaylistB ==
    <<Other("#EXTM3U"), ExtTwo, UrlLine("https://", "s/2.m3u8"),
      ExtOne, UrlLine("http://", "s/1.m3u8")>>
PlaylistC ==
    <<Other("#EXTM3U"), ExtTwo, UrlLine("https://", "s/9.m3u8"),
      ExtNoGroup, UrlLine("http://", "s/3.m3u8")>>

Contents == {PlaylistA, PlaylistB, PlaylistC}

----------------------------------------------------------------------------
(* PARSED_M3U_CACHE and one call frame of async_parse_m3u *)

\* the lookup made under another key than the url: it never finds the entry
CacheGetMiss(c, url) == None

\* PARSED_M3U_CACHE.get(m3u_url)
CacheGet(c, url) == IF url \in DOMAIN c THEN Some(c[url]) ELSE None

\* setdefault instead of assignment: an entry already present is kept
CachePutMut(c, url, t, chans) ==
    IF url \in DOMAIN c THEN c
    ELSE [k \in DOMAIN c \cup {url} |->
            IF k = url THEN [timestamp |-> t, channels |-> chans] ELSE c[k]]

\* PARSED_M3U_CACHE[m3u_url] = {"timestamp": time.time(), "channels": channels}
CachePut(c, url, t, chans) ==
    [k \in DOMAIN c \cup {url} |->
        IF k = url THEN [timestamp |-> t, channels |-> chans] ELSE c[k]]

\* the age test with the comparison reversed
IsFreshMut(cached_data, t) ==
    cached_data # None /\ (t - cached_data[1].timestamp) > M3U_CACHE_SECONDS

\* line 61: cached_data and (time.time() - cached_data["timestamp"]) < M3U_CACHE_SECONDS
IsFresh(cached_data, t) ==
    cached_data # None /\ (t - cached_data[1].timestamp) < M3U_CACHE_SECONDS

\* str(e) of the AttributeError of line 122
NONE_STRIP == <<"'NoneType' object has no attribute 'strip'">>

NoOut == [kind |-> "none", channels |-> <<>>, msg |-> <<>>, line |-> 0]
Returned(chans, ln) ==
    [kind |-> "return", channels |-> chans, msg |-> <<>>, line |-> ln]
Raised(exc, m, ln) ==
    [kind |-> exc, channels |-> <<>>, msg |-> m, line |-> ln]

\* no stale fallback: the error is always raised
OnFetchErrorMut(cached_data, friendly_name) ==
    Raised("BrowseError", <<"Could not fetch IPTV playlist: ", friendly_name>>, 91)

\* lines 84-93: the except clause for aiohttp.ClientError / asyncio.TimeoutError
OnFetchError(cached_data, friendly_name) ==
    IF cached_data # None
    THEN Returned(cached_data[1].channels, 90)
    ELSE Raised("BrowseError",
                <<"Could not fetch IPTV playlist: ", friendly_name>>, 91)

\* outcomes of a request to the media source platform
NoResult ==
    [kind |-> "none", identifier |-> None, title |-> "", can_expand |-> FALSE,
     children |-> <<>>, msg |-> <<>>, url |-> "", mime_type |-> ""]
BrowseMediaSource(identifier, title, can_expand, children) ==
    [NoResult EXCEPT !.kind = "BrowseMediaSource", !.identifier = identifier,
                     !.title = title, !.can_expand = can_expand,
                     !.children = children]
PlayMedia(url, mime_type) ==
    [NoResult EXCEPT !.kind = "PlayMedia", !.url = url,
                     !.mime_type = mime_type]
Failed(exc, m) == [NoResult EXCEPT !.kind = exc, !.msg = m]

\* no request of the host is being served
NoRequest ==
    [pc |-> "idle", op |-> "", identifier |-> None, title |-> "",
     out |-> NoResult]

\* results of a step of a config or options flow; user_input and
\* source_type keep what the step was called with
NoFlow ==
    [step |-> "", type |-> "", errors |-> "", reason |-> "",
     user_input |-> None, source_type |-> ""]
ShowForm(step_id, errors, user_input, source_type) ==
    [NoFlow EXCEPT !.step = step_id, !.type = "form", !.errors = errors,
                   !.user_input = user_input, !.source_type = source_type]
CreateEntry(step_id, user_input, source_type) ==
    [NoFlow EXCEPT !.step = step_id, !.type = "create_entry",
                   !.user_input = user_input, !.source_type = source_type]
Abort(step_id, reason, user_input, source_type) ==
    [NoFlow EXCEPT !.step = step_id, !.type = "abort", !.reason = reason,
                   !.user_input = user_input, !.source_type = source_type]

IdleFrame ==
    [pc |-> "idle", m3u_url |-> "", m3u_friendly_name |-> "",
     cached_data |-> None, content |-> None, out |-> NoOut]

\* lines 60-71: read the cache; return the fresh entry or issue the request
\* and suspend at session.get
CallStep(t, url, friendly_name) ==
    /\ task[t].pc = "idle"
    /\ LET cached_data == CacheGet(cache, url) IN
       IF IsFresh(cached_data, now)
       THEN /\ task' = [task EXCEPT ![t] =
                   [IdleFrame EXCEPT !.pc = "done", !.m3u_url = url,
                       !.m3u_friendly_name = friendly_name,
                       !.cached_data = cached_data,
                       !.out = Returned(cached_data[1].channels, 63)]]
            /\ UNCHANGED fetches
       ELSE /\ fetches[url] < MaxFetches
            /\ fetches' = [fetches EXCEPT ![url] = @ + 1]
            /\ task' = [task EXCEPT ![t] =
                   [IdleFrame EXCEPT !.pc = "fetching", !.m3u_url = url,
                       !.m3u_friendly_name = friendly_name,
                       !.cached_data = cached_data]]
    /\ UNCHANGED <<cache, now, pvars>>

\* async_parse_m3u called on its own
Call(t, url, friendly_name) ==
    CallStep(t, url, friendly_name) /\ UNCHANGED bvars

\* the store in a finally clause: runs although the loop raised
StoreParsedMut(c, url, t, res) == CachePut(c, url, t, res.channels)

\* line 144 is reached only when the loop above it did not raise
StoreParsed(c, url, t, res) ==
    IF res.raised THEN c ELSE CachePut(c, url, t, res.channels)

\* lines 71-82 succeed with response text content, then lines 95-145 run
\* without suspending
FetchSucceedsStep(t, content) ==
    /\ task[t].pc = "fetching"
    /\ LET url == task[t].m3u_url
           res == ParseM3U(content, url)
       IN  /\ cache' = StoreParsed(cache, url, now, res)
           /\ task' = [task EXCEPT ![t].pc = "done",
                          ![t].content = Some(content),
                          ![t].out = IF res.raised
                                     THEN Raised("AttributeError", NONE_STRIP, 122)
                                     ELSE Returned(res.channels, 145)]
    /\ UNCHANGED <<now, fetches, pvars>>

FetchSucceeds(t, content) ==
    FetchSucceedsStep(t, content) /\ UNCHANGED bvars

\* the stale fallback also renews the timestamp of the entry
FetchFailsRenew(t) ==
    /\ task[t].pc = "fetching"
    /\ task' = [task EXCEPT ![t].pc = "done",
                   ![t].out = OnFetchError(task[t].cached_data,
                                           task[t].m3u_friendly_name)]
    /\ cache' = IF task[t].m3u_url \in DOMAIN cache
                THEN [cache EXCEPT ![task[t].m3u_url].timestamp = now]
                ELSE cache
    /\ UNCHANGED <<now, fetches, pvars>>

\* the except clause looks the entry up again instead of using cached_data
FetchFailsReread(t) ==
    /\ task[t].pc = "fetching"
    /\ task' = [task EXCEPT ![t].pc = "done",
                   ![t].out = OnFetchError(CacheGet(cache, task[t].m3u_url),
                                           task[t].m3u_friendly_name)]
    /\ UNCHANGED <<cache, now, fetches, pvars>>

\* session.get, raise_for_status or response.text raises aiohttp.ClientError
\* or asyncio.TimeoutError
FetchFailsStep(t) ==
    /\ task[t].pc = "fetching"
    /\ task' = [task EXCEPT ![t].pc = "done",
                   ![t].out = OnFetchError(task[t].cached_data,
                                           task[t].m3u_friendly_name)]
    /\ UNCHANGED <<cache, now, fetches, pvars>>

FetchFails(t) == FetchFailsStep(t) /\ UNCHANGED bvars

\* the host cancels the request while it is suspended in the fetch:
\* asyncio.CancelledError passes through both except clauses
CancelStep(t) ==
    /\ task[t].pc = "fetching"
    /\ task' = [task EXCEPT ![t].pc = "done",
                   ![t].out = Raised("CancelledError", <<>>, 71)]
    /\ UNCHANGED <<cache, now, fetches, pvars>>

Cancel(t) == CancelStep(t) /\ UNCHANGED bvars

\* the caller has taken the outcome; the frame is gone
Finish(t) ==
    /\ task[t].pc = "done"
    /\ task' = [task EXCEPT ![t] = IdleFrame]
    /\ UNCHANGED <<cache, now, fetches, pvars, bvars>>

\* the clock read by time.time() advances
Tick ==
    /\ now + TickStep <= MaxTime
    /\ now' = now + TickStep
    /\ UNCHANGED <<cache, fetches, task, pvars, bvars>>

ParserIdle ==
    /\ m3u_url = ""
    /\ lines = <<>>
    /\ line_num = 0
    /\ channels = <<>>
    /\ current_channel_info = None
    /\ raised = FALSE

Init ==
    /\ cache = <<>>
    /\ now = 0
    /\ fetches = [u \in Urls |-> 0]
    /\ task = [t \in Tasks |-> IdleFrame]
    /\ ParserIdle
    /\ entries = <<>>
    /\ request = [t \in Tasks |-> NoRequest]
    /\ flow = NoFlow

Next ==
    \/ \E t \in Tasks, u \in Urls, n \in FriendlyNames : Call(t, u, n)
    \/ \E t \in Tasks, c \in Contents : FetchSucceeds(t, c)
    \/ \E t \in Tasks : FetchFails(t)
    \/ \E t \in Tasks : Cancel(t)
    \/ \E t \in Tasks : Finish(t)
    \/ Tick

Spec == Init /\ [][Next]_vars

----------------------------------------------------------------------------
(* The parser loop run line by line on a bounded set of playlist texts *)

AttrKeys == {"tvg-id", "tvg-name", "tvg-logo", "group-title"}

AttrValue(k) ==
    CASE k = "tvg-id" -> <<"id1">>
      [] k = "tvg-name" -> <<"Tvg", WS, "Name">>
      [] k = "tvg-logo" -> <<"l1.png">>
      [] k = "group-title" -> <<WS, "News">>

Range(f) == {f[i] : i \in DOMAIN f}

\* every arrangement of every subset of at most MaxAttrs recognised attributes
KeySeqs ==
    {ks \in UNION {[1..n -> AttrKeys] : n \in 0..MaxAttrs} :
        Cardinality(Range(ks)) = Len(ks)}

AttrsOf(ks) == [i \in DOMAIN ks |-> Attr(ks[i], AttrValue(ks[i]))]

FreeNames == {<<>>, <<WS>>, <<"One">>, <<WS, "Two", WS>>}

ExtinfLines ==
    {Extinf(d, AttrsOf(ks), n) : d \in BOOLEAN, ks \in KeySeqs, n \in FreeNames}

ExtEmptyName ==
    Extinf(TRUE, <<Attr("tvg-name", <<"Tvg", WS, "Name">>),
                   Attr("group-title", <<"News">>)>>, <<>>)
ExtBadDuration ==
    Extinf(FALSE, <<Attr("group-title", <<"News">>)>>, <<"One">>)
ExtEmptyLogo ==
    Extinf(TRUE, <<Attr("tvg-chno", <<"5">>), Attr("tvg-logo", <<>>),
                   Attr("group-title", <<>>)>>, <<"Four">>)

SampleLines ==
    {Blank, Other("#EXTM3U"),
     UrlLine("http://", "s/1.m3u8"), UrlLine("https://", "s/2.m3u8"),
     UrlLine("rtmp://", "s/3"),
     ExtOne, ExtTwo, ExtNoGroup, ExtEmptyName, ExtBadDuration, ExtEmptyLogo}

Texts ==
    UNION {[1..n -> SampleLines] : n \in 0..MaxLines}
    \cup {<<m, UrlLine("http://", "s/1.m3u8")>> : m \in ExtinfLines}

CacheIdle ==
    /\ cache = <<>>
    /\ now = 0
    /\ fetches = [u \in Urls |-> 0]
    /\ task = [t \in Tasks |-> IdleFrame]

InitParse ==
    /\ CacheIdle
    /\ m3u_url \in Urls
    /\ lines \in Texts
    /\ line_num = 0
    /\ channels = <<>>
    /\ current_channel_info = None
    /\ raised = FALSE
    /\ entries = <<>>
    /\ request = [t \in Tasks |-> NoRequest]
    /\ flow = NoFlow

\* one iteration of "for line_num, line in enumerate(lines)"
ParseLine ==
    /\ line_num < Len(lines)
    /\ ~raised
    /\ LET st == LoopBody([channels |-> channels,
                           info |-> current_channel_info,
                           raised |-> raised],
                          lines[line_num + 1], m3u_url)
       IN  /\ channels' = st.channels
           /\ current_channel_info' = st.info
           /\ raised' = st.raised
    /\ line_num' = line_num + 1
    /\ UNCHANGED <<m3u_url, lines, cvars, bvars>>

NextParse == ParseLine

SpecParse == InitParse /\ [][NextParse]_vars

----------------------------------------------------------------------------
(* IPTVMediaSourcePlatform: browse and resolve requests of the host, and the
   configuration entries they read *)

BrowseTasks == {"t1"}
BrowseContents == {PlaylistA, PlaylistC}
UserUrls == Urls \cup {"http://c/z.txt"}
UserNames == {"Home TV"}
Identifiers ==
    {None} \cup {Some(u) : u \in Urls}
           \cup {Some("http://s/1.m3u8"), Some("http://gone/q.m3u")}

\* str.lower() on the urls a user submits
Lower(u) == IF u = "HTTP://D/W.M3U8" THEN "http://d/w.m3u8" ELSE u

\* url.lower().endswith((".m3u", ".m3u8"))
EndsWithM3u(u) ==
    Lower(u) \in {"http://a/x.m3u", "http://b/y.m3u", "http://gone/q.m3u",
                  "http://d/w.m3u8",
                  "https://iptv-org.github.io/iptv/countries/us.m3u"}

SOURCE_IPTV_ORG == "iptv_org"
SOURCE_CUSTOM_URL == "custom_url"

Entry(u, n, uid) ==
    [source_type |-> SOURCE_CUSTOM_URL, m3u_url |-> u, friendly_name |-> n,
     unique_id |-> uid]

\* the first entry whatever its url
FindEntryAny(es, url) == IF es = <<>> THEN None ELSE Some(es[1])

\* _find_entry_for_m3u_url: the first entry whose m3u_url is the url
RECURSIVE FindEntryFrom(_, _, _)
FindEntryFrom(es, url, i) ==
    IF i > Len(es) THEN None
    ELSE IF es[i].m3u_url = url THEN Some(es[i])
    ELSE FindEntryFrom(es, url, i + 1)

FindEntry(es, url) == FindEntryFrom(es, url, 1)

\* code point order of the symbols that occur in channel names; no symbol
\* is a prefix of another, so comparing texts symbol by symbol is the
\* comparison of the strings
SymbolOrder ==
    <<WS, "Channel", "Four", "Name", "One", "Three", "Tvg", "Two",
      "Unnamed Channel">>

SymbolRank(x) == CHOOSE i \in DOMAIN SymbolOrder : SymbolOrder[i] = x

\* a < b for two str
RECURSIVE TextLess(_, _)
TextLess(a, b) ==
    IF b = <<>> THEN FALSE
    ELSE IF a = <<>> THEN TRUE
    ELSE IF Head(a) = Head(b) THEN TextLess(Tail(a), Tail(b))
    ELSE SymbolRank(Head(a)) < SymbolRank(Head(b))

\* insert x after every element whose title is not greater
RECURSIVE InsertByTitle(_, _)
InsertByTitle(sorted, x) ==
    IF sorted = <<>> THEN <<x>>
    ELSE IF TextLess(x.title, Head(sorted).title)
    THEN <<x>> \o sorted
    ELSE <<Head(sorted)>> \o InsertByTitle(Tail(sorted), x)

\* children.sort(key=lambda x: x.title): stable
RECURSIVE SortFrom(_, _, _)
SortFrom(sorted, xs, i) ==
    IF i > Len(xs) THEN sorted
    ELSE SortFrom(InsertByTitle(sorted, xs[i]), xs, i + 1)

\* the sort takes the children from the last to the first, so children of
\* one title come out in the reverse of their order
SortByTitleBackwards(xs) ==
    SortFrom(<<>>, [i \in DOMAIN xs |-> xs[Len(xs) + 1 - i]], 1)

SortByTitle(xs) == SortFrom(<<>>, xs, 1)

ChannelChild(rec) ==
    [identifier |-> rec.url, title |-> rec.name, thumbnail |-> rec.logo,
     can_play |-> TRUE, can_expand |-> FALSE]

\* lines 246-282: the node built from the channel list
ChannelListing(url, playlist_title, chans) ==
    IF chans = <<>>
    THEN BrowseMediaSource(Some(url), playlist_title, FALSE, <<>>)
    ELSE BrowseMediaSource(Some(url), playlist_title, TRUE,
            SortByTitle([i \in DOMAIN chans |-> ChannelChild(chans[i])]))

\* every exception of async_parse_m3u is passed on as it is
BrowseOutcomeRaw(out, url, playlist_title) ==
    IF out.kind = "return"
    THEN ChannelListing(url, playlist_title, out.channels)
    ELSE Failed(out.kind, out.msg)

\* _async_browse_m3u_channels around the outcome out of async_parse_m3u:
\* BrowseError is raised again, CancelledError is no Exception and passes,
\* any other exception becomes BrowseError
BrowseOutcome(out, url, playlist_title) ==
    IF out.kind = "return"
    THEN ChannelListing(url, playlist_title, out.channels)
    ELSE IF out.kind \in {"BrowseError", "CancelledError"}
    THEN Failed(out.kind, out.msg)
    ELSE Failed("BrowseError",
                <<"Could not parse channels for ", playlist_title, ".">>)

RootChild(e) ==
    [identifier |-> e.m3u_url, title |-> e.friendly_name, thumbnail |-> None,
     can_play |-> FALSE, can_expand |-> TRUE]

\* _async_browse_root: one child per entry that has an m3u_url
RootListing(es) ==
    BrowseMediaSource(None, "IPTV Media", TRUE,
        [i \in DOMAIN es |-> RootChild(es[i])])

Serving(t, ident, title) ==
    [pc |-> "awaiting", op |-> "browse", identifier |-> ident,
     title |-> title, out |-> NoResult]

Served(t, op, ident, title, out) ==
    [pc |-> "done", op |-> op, identifier |-> ident, title |-> title,
     out |-> out]

\* async_browse_media up to its first suspension, or to its end when
\* nothing suspends
BrowseMedia(t, ident) ==
    /\ request[t].pc = "idle"
    /\ task[t].pc = "idle"
    /\ IF ident = None
       THEN /\ request' = [request EXCEPT ![t] =
                   Served(t, "browse", ident, "", RootListing(entries))]
            /\ UNCHANGED <<cvars, pvars>>
       ELSE LET entry == FindEntry(entries, ident[1]) IN
            IF entry = None
            THEN /\ request' = [request EXCEPT ![t] =
                        Served(t, "browse", ident, "",
                            Failed("BrowseError",
                                <<"Configured IPTV source not found for URL: ",
                                  ident[1]>>))]
                 /\ UNCHANGED <<cvars, pvars>>
            ELSE LET friendly_name == entry[1].friendly_name IN
                 /\ CallStep(t, ident[1], friendly_name)
                 /\ request' = [request EXCEPT ![t] =
                        IF task'[t].pc = "done"
                        THEN Served(t, "browse", ident, friendly_name,
                                 BrowseOutcome(task'[t].out, ident[1],
                                               friendly_name))
                        ELSE Serving(t, ident, friendly_name)]
    /\ UNCHANGED <<entries, flow>>

Resumed(t) ==
    request' = [request EXCEPT ![t].pc = "done",
                   ![t].out = BrowseOutcome(task'[t].out,
                                            request[t].identifier[1],
                                            request[t].title)]

\* the suspended browse request resumes with the response text
BrowseFetched(t, content) ==
    /\ request[t].pc = "awaiting"
    /\ FetchSucceedsStep(t, content)
    /\ Resumed(t)
    /\ UNCHANGED <<entries, flow>>

\* the suspended browse request resumes with the fetch error
BrowseFetchFailed(t) ==
    /\ request[t].pc = "awaiting"
    /\ FetchFailsStep(t)
    /\ Resumed(t)
    /\ UNCHANGED <<entries, flow>>

\* the host cancels the suspended browse request
BrowseCancelled(t) ==
    /\ request[t].pc = "awaiting"
    /\ CancelStep(t)
    /\ Resumed(t)
    /\ UNCHANGED <<entries, flow>>

\* resolve refuses an identifier that no record of the cache carries
ResolveMediaKnownOnly(t, ident) ==
    /\ request[t].pc = "idle"
    /\ task[t].pc = "idle"
    /\ ident # None
    /\ request' = [request EXCEPT ![t] =
           Served(t, "resolve", ident, "",
                  IF ident[1] \in DOMAIN cache
                  THEN PlayMedia(ident[1], "application/x-mpegURL")
                  ELSE Failed("Unresolvable", <<>>))]
    /\ UNCHANGED <<cvars, pvars, entries, flow>>

\* async_resolve_media
ResolveMedia(t, ident) ==
    /\ request[t].pc = "idle"
    /\ task[t].pc = "idle"
    /\ ident # None
    /\ request' = [request EXCEPT ![t] =
           Served(t, "resolve", ident, "",
                  PlayMedia(ident[1], "application/x-mpegURL"))]
    /\ UNCHANGED <<cvars, pvars, entries, flow>>

\* the host has taken the outcome of the request
Respond(t) ==
    /\ request[t].pc = "done"
    /\ request' = [request EXCEPT ![t] = NoRequest]
    /\ task' = [task EXCEPT ![t] = IdleFrame]
    /\ UNCHANGED <<cache, now, fetches, pvars, entries, flow>>

HasUniqueId(es, uid) == \E i \in DOMAIN es : es[i].unique_id = uid

\* _abort_if_unique_id_configured(updates=final_data): the entry that has
\* the unique id takes the url and the name of final_data
UpdateConfigured(es, uid, u, n) ==
    [i \in DOMAIN es |->
        IF es[i].unique_id = uid
        THEN [es[i] EXCEPT !.m3u_url = u, !.friendly_name = n]
        ELSE es[i]]

\* what the user submits to a step: the form's values
CustomInput(u, n) ==
    Some([m3u_url |-> u, friendly_name |-> n, country_code |-> ""])
CountryInput(code) ==
    Some([m3u_url |-> "", friendly_name |-> None, country_code |-> code])

\* async_step_custom_url on the entries es: the entries it leaves and the
\* result it returns.  A url without the suffix shows the form again; an
\* unique id already configured updates that entry and aborts; otherwise
\* the entry is created.  The unique id custom_{hash(url)} is the url.
CustomUrlOutcome(es, user_input) ==
    IF user_input = None
    THEN [entries |-> es,
          result |-> ShowForm("custom_url", "", None, SOURCE_CUSTOM_URL)]
    ELSE LET custom_m3u_url == user_input[1].m3u_url
             friendly_name == IF user_input[1].friendly_name = None
                              THEN "Custom IPTV"
                              ELSE user_input[1].friendly_name[1]
         IN  IF ~EndsWithM3u(custom_m3u_url)
             THEN [entries |-> es,
                   result |-> ShowForm("custom_url", "invalid_m3u_url",
                                       user_input, SOURCE_CUSTOM_URL)]
             ELSE IF HasUniqueId(es, custom_m3u_url)
             THEN [entries |-> UpdateConfigured(es, custom_m3u_url,
                                                custom_m3u_url, friendly_name),
                   result |-> Abort("custom_url", "already_configured",
                                    user_input, SOURCE_CUSTOM_URL)]
             ELSE [entries |-> Append(es, Entry(custom_m3u_url, friendly_name,
                                                custom_m3u_url)),
                   result |-> CreateEntry("custom_url", user_input,
                                          SOURCE_CUSTOM_URL)]

\* the options flow stores whatever url it is given
OptionsInitOutcomeUnchecked(es, i, user_input) ==
    IF user_input = None
    THEN [entries |-> es,
          result |-> ShowForm("init", "", None, es[i].source_type)]
    ELSE [entries |-> [es EXCEPT ![i] =
              IF es[i].source_type = SOURCE_CUSTOM_URL
              THEN [es[i] EXCEPT
                       !.friendly_name = user_input[1].friendly_name[1],
                       !.m3u_url = user_input[1].m3u_url]
              ELSE [es[i] EXCEPT
                       !.friendly_name = user_input[1].friendly_name[1]]],
          result |-> CreateEntry("init", user_input, es[i].source_type)]

\* OptionsFlowHandler.async_step_init for entry i of es.  current_data is
\* the entry's data when the dialog was opened; the keys the step copies
\* from it (source_type, and m3u_url of an IPTV.org entry) never change.
OptionsInitOutcome(es, i, user_input) ==
    IF user_input = None
    THEN [entries |-> es,
          result |-> ShowForm("init", "", None, es[i].source_type)]
    ELSE LET custom == es[i].source_type = SOURCE_CUSTOM_URL
             named == [es[i] EXCEPT
                          !.friendly_name = user_input[1].friendly_name[1]]
             updated_data == IF custom
                             THEN [named EXCEPT
                                      !.m3u_url = user_input[1].m3u_url]
                             ELSE named
         IN  IF custom /\ ~EndsWithM3u(updated_data.m3u_url)
             THEN [entries |-> es,
                   result |-> ShowForm("init", "invalid_m3u_url_format",
                                       user_input, es[i].source_type)]
             ELSE [entries |-> [es EXCEPT ![i] = updated_data],
                   result |-> CreateEntry("init", user_input,
                                          es[i].source_type)]

\* a user adds a custom source while the platform serves requests; the
\* result of the step goes to the user's dialog
CustomUrl(u, n) ==
    /\ entries' = CustomUrlOutcome(entries, CustomInput(u, Some(n))).entries
    /\ UNCHANGED <<cvars, pvars, request, flow>>

\* a user edits entry i while the platform serves requests
OptionsInit(i, u, n) ==
    /\ i \in DOMAIN entries
    /\ entries' = OptionsInitOutcome(entries, i,
                                     CustomInput(u, Some(n))).entries
    /\ UNCHANGED <<cvars, pvars, request, flow>>

\* unloading an entry also drops the cache entry of its url
RemoveEntryEvict(i) ==
    /\ i \in DOMAIN entries
    /\ entries' = [j \in 1..(Len(entries) - 1) |->
                      IF j < i THEN entries[j] ELSE entries[j + 1]]
    /\ cache' = [k \in DOMAIN cache \ {entries[i].m3u_url} |-> cache[k]]
    /\ UNCHANGED <<now, fetches, task, pvars, request, flow>>

\* the host removes entry i after async_unload_entry
RemoveEntry(i) ==
    /\ i \in DOMAIN entries
    /\ entries' = [j \in 1..(Len(entries) - 1) |->
                      IF j < i THEN entries[j] ELSE entries[j + 1]]
    /\ UNCHANGED <<cvars, pvars, request, flow>>

NextBrowse ==
    \/ \E t \in BrowseTasks, ident \in Identifiers : BrowseMedia(t, ident)
    \/ \E t \in BrowseTasks, c \in BrowseContents : BrowseFetched(t, c)
    \/ \E t \in BrowseTasks : BrowseFetchFailed(t)
    \/ \E t \in BrowseTasks : BrowseCancelled(t)
    \/ \E t \in BrowseTasks, ident \in Identifiers : ResolveMedia(t, ident)
    \/ \E t \in BrowseTasks : Respond(t)
    \/ \E u \in UserUrls, n \in UserNames : CustomUrl(u, n)
    \/ \E i \in DOMAIN entries, u \in UserUrls, n \in UserNames :
          OptionsInit(i, u, n)
    \/ \E i \in DOMAIN entries : RemoveEntry(i)
    \/ Tick

SpecBrowse == Init /\ [][NextBrowse]_vars

----------------------------------------------------------------------------
(* _async_browse_m3u_channels on a bounded set of channel lists: the lists
   async_parse_m3u can return to it *)

ListNames == {<<"Channel">>, <<"Channel", WS, "One">>, <<"Two">>}
ListStreams == {<<"http://", "s/1.m3u8">>, <<"https://", "s/2.m3u8">>}

ListRecords(u) ==
    {[name |-> n, url |-> s, logo |-> None, group |-> <<"News">>,
      original_m3u_url |-> u] : n \in ListNames, s \in ListStreams}

ChannelLists(u) == UNION {[1..n -> ListRecords(u)] : n \in 0..MaxChannels}

\* the browse request of a playlist waits for async_parse_m3u, which is
\* about to return channels
InitListing ==
    /\ CacheIdle
    /\ m3u_url \in Urls
    /\ channels \in ChannelLists(m3u_url)
    /\ lines = <<>>
    /\ line_num = 0
    /\ current_channel_info = None
    /\ raised = FALSE
    /\ entries = <<>>
    /\ flow = NoFlow
    /\ \E title \in UserNames :
          request = [t \in Tasks |->
                        IF t \in BrowseTasks
                        THEN Serving(t, Some(m3u_url), title)
                        ELSE NoRequest]

\* lines 239-282 once async_parse_m3u has returned channels
ListChannels(t) ==
    /\ request[t].pc = "awaiting"
    /\ request' = [request EXCEPT ![t] =
           Served(t, "browse", request[t].identifier, request[t].title,
                  BrowseOutcome(Returned(channels, 145), m3u_url,
                                request[t].title))]
    /\ UNCHANGED <<cvars, pvars, entries, flow>>

NextListing == \E t \in BrowseTasks : ListChannels(t)

SpecListing == InitListing /\ [][NextListing]_vars

----------------------------------------------------------------------------
(* IPTVMediaSourceConfigFlow and OptionsFlowHandler: the steps a user takes
   to add and edit sources, each with the result it returns *)

FlowUrls == {"http://a/x.m3u", "HTTP://D/W.M3U8", "http://c/z.txt"}
FlowNames == {None} \cup {Some(n) : n \in UserNames}
CountryCodes == {"us", "xx"}
\* fetch_iptv_org_data: the error dict, no country, or the country list
CountryFetches == {"error", "empty", "countries"}

CustomInputs ==
    {None} \cup {CustomInput(u, n) : u \in FlowUrls, n \in FlowNames}
OptionsInputs ==
    {None} \cup {CustomInput(u, Some(n)) : u \in FlowUrls, n \in UserNames}
CountryInputs == {None} \cup {CountryInput(c) : c \in CountryCodes}

\* the list of IPTV.org has the one country us
OrgCountryName(code) == IF code = "us" THEN Some("United States") ELSE None
\* f"{IPTV_ORG_STREAMS_BASE_URL}{code}.m3u"
OrgUrl(code) == "https://iptv-org.github.io/iptv/countries/us.m3u"
\* f"IPTV.org - {country_name_for_entry}"
OrgTitle(code) == "IPTV.org - United States"
\* f"iptv_org_{code}"
OrgUniqueId(code) == "iptv_org_us"

OrgEntry(code) ==
    [source_type |-> SOURCE_IPTV_ORG, m3u_url |-> OrgUrl(code),
     friendly_name |-> OrgTitle(code), unique_id |-> OrgUniqueId(code)]

\* async_step_select_country on the entries es, countries being what
\* fetch_iptv_org_data gave this flow
SelectCountryOutcome(es, countries, user_input) ==
    IF countries = "error"
    THEN [entries |-> es,
          result |-> Abort("select_country", "cannot_connect_iptv_org",
                           user_input, SOURCE_IPTV_ORG)]
    ELSE IF countries = "empty"
    THEN [entries |-> es,
          result |-> ShowForm("select_country", "no_countries_found",
                              user_input, SOURCE_IPTV_ORG)]
    ELSE IF user_input = None
    THEN [entries |-> es,
          result |-> ShowForm("select_country", "", None, SOURCE_IPTV_ORG)]
    ELSE LET code == user_input[1].country_code IN
         IF OrgCountryName(code) = None
         THEN [entries |-> es,
               result |-> Abort("select_country", "unknown_error",
                                user_input, SOURCE_IPTV_ORG)]
         ELSE IF HasUniqueId(es, OrgUniqueId(code))
         THEN [entries |-> UpdateConfigured(es, OrgUniqueId(code),
                                            OrgUrl(code), OrgTitle(code)),
               result |-> Abort("select_country", "already_configured",
                                user_input, SOURCE_IPTV_ORG)]
         ELSE [entries |-> Append(es, OrgEntry(code)),
               result |-> CreateEntry("select_country", user_input,
                                      SOURCE_IPTV_ORG)]

\* a user submits the custom-url form of a config flow
StepCustomUrl(user_input) ==
    /\ LET outcome == CustomUrlOutcome(entries, user_input)
       IN  entries' = outcome.entries /\ flow' = outcome.result
    /\ UNCHANGED <<cvars, pvars, request>>

\* a user submits the country form of a config flow
StepSelectCountry(countries, user_input) ==
    /\ LET outcome == SelectCountryOutcome(entries, countries, user_input)
       IN  entries' = outcome.entries /\ flow' = outcome.result
    /\ UNCHANGED <<cvars, pvars, request>>

\* a user submits the options form of entry i
StepOptionsInit(i, user_input) ==
    /\ i \in DOMAIN entries
    /\ LET outcome == OptionsInitOutcome(entries, i, user_input)
       IN  entries' = outcome.entries /\ flow' = outcome.result
    /\ UNCHANGED <<cvars, pvars, request>>

NextFlow ==
    \/ \E user_input \in CustomInputs : StepCustomUrl(user_input)
    \/ \E countries \in CountryFetches, user_input \in CountryInputs :
          StepSelectCountry(countries, user_input)
    \/ \E i \in DOMAIN entries, user_input \in OptionsInputs :
          StepOptionsInit(i, user_input)
    \/ \E i \in DOMAIN entries : RemoveEntry(i)

SpecFlow == Init /\ [][NextFlow]_vars

----------------------------------------------------------------------------
(* Properties of the cache, checked under Spec *)

Fetching(t) == task[t].pc = "fetching"

\* the call of t leaves the fetch with response text in hand
GotResponse(t) ==
    Fetching(t) /\ task'[t].pc = "done" /\ task'[t].content # None

\* the call of t leaves the fetch by the except clause of line 84
GotFetchError(t) ==
    /\ Fetching(t) /\ task'[t].pc = "done"
    /\ task'[t].content = None
    /\ task'[t].out.kind # "CancelledError"

Entered(t, u) ==
    task[t].pc = "idle" /\ task'[t].pc # "idle" /\ task'[t].m3u_url = u

\* C1: a call for a url whose entry is younger than 300 seconds returns the
\* entry's channels, issues no request and leaves the cache as it was.
C1_FreshHit ==
    [][\A t \in Tasks, u \in Urls :
        (/\ Entered(t, u)
         /\ u \in DOMAIN cache
         /\ now - cache[u].timestamp < M3U_CACHE_SECONDS)
        => (/\ fetches' = fetches
            /\ cache' = cache
            /\ task'[t].pc = "done"
            /\ task'[t].out.kind = "return"
            /\ task'[t].out.channels = cache[u].channels)]_vars

\* a second call within 300 s of the first was served with one request made
C1_Witness ==
    \E t \in Tasks :
        /\ task[t].pc = "done" /\ task[t].out.line = 63
        /\ fetches[task[t].m3u_url] = 1
        /\ now > cache[task[t].m3u_url].timestamp

\* C2: when the fetch of a refreshing call fails, the call returns the
\* channels of the entry it found at its start, if there was one, and
\* otherwise raises BrowseError with a message naming the source.
C2_StaleFallback ==
    [][\A t \in Tasks :
        GotFetchError(t)
        => (/\ cache' = cache
            /\ IF task[t].cached_data # None
               THEN /\ task'[t].out.kind = "return"
                    /\ task'[t].out.channels = task[t].cached_data[1].channels
               ELSE /\ task'[t].out.kind = "BrowseError"
                    /\ task[t].m3u_friendly_name \in Range(task'[t].out.msg))]_vars

\* a stale entry was served after a failed refresh
C2_Witness ==
    \E t \in Tasks :
        /\ task[t].pc = "done" /\ task[t].out.line = 90
        /\ task[t].cached_data # None
        /\ now - task[t].cached_data[1].timestamp >= M3U_CACHE_SECONDS
        /\ task[t].out.channels # <<>>

\* C3 (as claimed): a call that finds no entry or an entry of age >= 300
\* issues a request, and when the request succeeds the entry of the url
\* becomes the parse of the response stamped with the current time, which
\* is also what the call returns.
C3_Original ==
    [][\A t \in Tasks :
        /\ \A u \in Urls :
              (/\ Entered(t, u)
               /\ (u \notin DOMAIN cache
                   \/ now - cache[u].timestamp >= M3U_CACHE_SECONDS))
              => (task'[t].pc = "fetching" /\ fetches'[u] = fetches[u] + 1)
        /\ GotResponse(t)
           => (/\ task'[t].out.kind = "return"
               /\ CacheGet(cache', task[t].m3u_url)
                    = Some([timestamp |-> now,
                            channels |-> task'[t].out.channels]))]_vars

\* the complete parse results of the responses that parse without raising
CompleteParses(u) ==
    {ParseM3U(c, u).channels : c \in {x \in Contents : ~ParseM3U(x, u).raised}}

C4_Complete ==
    \A u \in DOMAIN cache : cache[u].channels \in CompleteParses(u)

C4_WriteStep ==
    cache' # cache
    => \E t \in Tasks :
          /\ GotResponse(t)
          /\ task'[t].out.kind = "return"
          /\ ~ParseM3U(task'[t].content[1], task[t].m3u_url).raised
          /\ cache' = [k \in DOMAIN cache \cup {task[t].m3u_url} |->
                         IF k = task[t].m3u_url
                         THEN [timestamp |-> now,
                               channels |-> ParseM3U(task'[t].content[1],
                                                     k).channels]
                         ELSE cache[k]]

\* C4: the cache changes only in the step that ends a successful fetch and
\* a completed parse, and then by one whole entry; a cancelled or failing
\* call writes nothing, so every entry is a complete parse result.
C4_AtomicWrite == []C4_Complete /\ [][C4_WriteStep]_vars

\* one call was cancelled in its fetch, one raised in the parser, and the
\* cache holds nothing for their url
C4_Witness ==
    \E t1, t2 \in Tasks :
        /\ task[t1].out.kind = "CancelledError"
        /\ task[t2].out.kind = "AttributeError"
        /\ task[t1].m3u_url = task[t2].m3u_url
        /\ task[t1].m3u_url \notin DOMAIN cache

\* C5: every call that completes fetch and parse stores its own result,
\* whatever the entry has become since the call read it, so the entry is
\* the result of the call that stored last.
C5_LastWriterWins ==
    [][\A t \in Tasks :
        (GotResponse(t) /\ task'[t].out.kind = "return")
        => (/\ task'[t].out.channels
                 = ParseM3U(task'[t].content[1], task[t].m3u_url).channels
            /\ CacheGet(cache', task[t].m3u_url)
                 = Some([timestamp |-> now,
                         channels |-> task'[t].out.channels]))]_vars

\* two calls found the same url absent, both fetched, both stored; the
\* entry is the result of one and not of the other
C5_Witness ==
    \E t1, t2 \in Tasks :
        /\ t1 # t2
        /\ task[t1].m3u_url = task[t2].m3u_url
        /\ task[t1].out.line = 145 /\ task[t2].out.line = 145
        /\ task[t1].cached_data = None /\ task[t2].cached_data = None
        /\ fetches[task[t1].m3u_url] = 2
        /\ cache[task[t1].m3u_url].channels = task[t2].out.channels
        /\ cache[task[t1].m3u_url].channels # task[t1].out.channels

----------------------------------------------------------------------------
(* Properties of the parser, checked under SpecParse *)

\* a metadata line as the playlist format has it: a duration and a
\* non-empty display name after the final comma
NamedMetadata(line) ==
    line.kind = "extinf" /\ line.dur /\ Strip(line.name) # <<>>

HasAttr(line, k) == \E i \in DOMAIN line.attrs : line.attrs[i].k = k
AttrOf(line, k) == line.attrs[FindAttr(line.attrs, k, 1)].v

\* the record a metadata line and a URL line stand for, every attribute
\* looked up by its key
PairRecord(m, u) ==
    [name |-> Strip(m.name),
     url |-> <<u.scheme, u.rest>>,
     logo |-> IF HasAttr(m, "tvg-logo") /\ AttrOf(m, "tvg-logo") # <<>>
              THEN Some(AttrOf(m, "tvg-logo")) ELSE None,
     group |-> IF HasAttr(m, "group-title")
               THEN Strip(AttrOf(m, "group-title")) ELSE UNCATEGORIZED,
     original_m3u_url |-> m3u_url]

OnlyPairs(text) ==
    /\ Len(text) % 2 = 0
    /\ \A i \in DOMAIN text :
          IF i % 2 = 1 THEN NamedMetadata(text[i]) ELSE IsHttpUrl(text[i])

ParseEnded == raised \/ line_num = Len(lines)

\* the last two lines consumed are the metadata line m and a http(s) URL
JustPaired ==
    /\ line_num >= 2
    /\ lines[line_num - 1].kind = "extinf"
    /\ IsHttpUrl(lines[line_num])

LastChannel == channels[Len(channels)]

\* C6 (as claimed): a text of metadata+URL pairs parses to one record per
\* pair, with the pair's name, logo, group and URL, in the order of the
\* pairs.
C6_Original ==
    (ParseEnded /\ OnlyPairs(lines))
    => (/\ ~raised
        /\ channels = [i \in 1..(Len(lines) \div 2) |->
                          PairRecord(lines[2 * i - 1], lines[2 * i])])

\* C7 (as claimed): a metadata line without group-title followed by a
\* http(s) URL line gives a record whose group is "Uncategorized".
C7_Original ==
    (/\ JustPaired
     /\ NamedMetadata(lines[line_num - 1])
     /\ ~HasAttr(lines[line_num - 1], "group-title"))
    => (/\ ~raised
        /\ channels # <<>>
        /\ LastChannel.url = <<lines[line_num].scheme, lines[line_num].rest>>
        /\ LastChannel.group = UNCATEGORIZED)

\* C8 (as claimed): the parser loop raises on no input text.
C8_Original == raised = FALSE

\* C9 (as claimed): a metadata line whose display name is empty, followed by
\* a http(s) URL line, gives one record for that URL, named by tvg-name if
\* the line has it and "Unnamed Channel" if not.
C9_Original ==
    (/\ JustPaired
     /\ lines[line_num - 1].dur
     /\ Strip(lines[line_num - 1].name) = <<>>)
    => (/\ ~raised
        /\ channels # <<>>
        /\ LastChannel.url = <<lines[line_num].scheme, lines[line_num].rest>>
        /\ LastChannel.name =
              IF HasAttr(lines[line_num - 1], "tvg-name")
              THEN AttrOf(lines[line_num - 1], "tvg-name")
              ELSE UNNAMED_CHANNEL)

\* the arrangements of the attributes of a line
Arrangements(attrs) ==
    {p \in [DOMAIN attrs -> Range(attrs)] : Range(p) = Range(attrs)}

\* C10 (as claimed): whatever the order of the recognised attributes on
\* the metadata line, the record has the same logo and the same group.
C10_Original ==
    (/\ Len(lines) = 2 /\ line_num = 2
     /\ NamedMetadata(lines[1]) /\ IsHttpUrl(lines[2]))
    => \A p \in Arrangements(lines[1].attrs) :
          LET other == ParseM3U(<<[lines[1] EXCEPT !.attrs = p], lines[2]>>,
                                m3u_url)
          IN  /\ other.raised = raised
              /\ ~raised => /\ other.channels[1].logo = channels[1].logo
                            /\ other.channels[1].group = channels[1].group

\* the line consumed by a step of the loop
Consumed == lines[line_num + 1]
Stepped == line_num' = line_num + 1

StreamOf(line) == <<line.scheme, line.rest>>

\* the step appended one record, for the URL line consumed, named name
PairedAs(name) ==
    /\ ~raised'
    /\ Len(channels') = Len(channels) + 1
    /\ SubSeq(channels', 1, Len(channels)) = channels
    /\ channels'[Len(channels')].name = name
    /\ channels'[Len(channels')].url = StreamOf(Consumed)

\* C11 (as claimed): a matched metadata line that follows another matched
\* metadata line takes over the pending slot without a record being
\* emitted, and the URL line after the two is paired with the later one:
\* one record, with the later line's name and that URL.
C11_Original ==
    [][Stepped =>
        /\ (/\ line_num >= 1
            /\ NamedMetadata(lines[line_num])
            /\ NamedMetadata(Consumed))
           => (/\ channels' = channels
               /\ current_channel_info' # None
               /\ current_channel_info'[1].name = Some(Strip(Consumed.name)))
        /\ (/\ line_num >= 2
            /\ NamedMetadata(lines[line_num - 1])
            /\ NamedMetadata(lines[line_num])
            /\ IsHttpUrl(Consumed))
           => PairedAs(Strip(lines[line_num].name))]_vars

MatchedSoFar == {i \in 1..line_num : NamedMetadata(lines[i])}

C12_AtMostOnePerMetadata == Len(channels) <= Cardinality(MatchedSoFar)

C12_Step ==
    Stepped =>
        /\ (IsHttpUrl(Consumed) /\ current_channel_info = None)
           => (channels' = channels /\ ~raised'
               /\ current_channel_info' = None)
        /\ (channels' # channels) => current_channel_info' = None

\* a metadata line followed by two URL lines: the first URL line gives the
\* one record
C12_FirstUrl ==
    (/\ Stepped
     /\ line_num >= 1
     /\ NamedMetadata(lines[line_num])
     /\ IsHttpUrl(Consumed))
    => (/\ PairedAs(Strip(lines[line_num].name))
        /\ current_channel_info' = None)

\* C12 (as claimed): a URL line met with the slot empty gives no record and
\* no error; every emission empties the slot, so a metadata line followed
\* by two URL lines gives exactly one record, with the first URL, and there
\* are never more records than matched metadata lines.
C12_Original ==
    []C12_AtMostOnePerMetadata /\ [][C12_Step /\ C12_FirstUrl]_vars

\* the line matches EXTINF_REGEX
Matched(line) == RegexMatch(line) # None

\* a line that neither matches the pattern nor is a http(s) URL: a comment,
\* a URL of another scheme, an #EXTINF line the pattern rejects
SlotNeutral(line) == ~Matched(line) /\ ~IsHttpUrl(line)

\* the matched metadata lines that only such lines separate from the line
\* about to be consumed
RecentMatched ==
    {k \in 1..line_num :
        /\ Matched(lines[k])
        /\ \A j \in (k + 1)..line_num : SlotNeutral(lines[j])}

\* C21 (as claimed): the pending slot is set by a line that matches the
\* pattern and cleared by a URL line that emits a record; every other line
\* leaves slot and records as they are, so a http(s) URL line is paired
\* with the most recent matched metadata line across such lines: one
\* record, with that line's name and the URL.
C21_Original ==
    [][Stepped =>
        /\ Matched(Consumed)
           => current_channel_info' =
                 Some(NameFallback(RegexMatch(Consumed)[1]))
        /\ SlotNeutral(Consumed)
           => (/\ current_channel_info' = current_channel_info
               /\ channels' = channels
               /\ ~raised')
        /\ (current_channel_info' # current_channel_info)
           => \/ Matched(Consumed)
              \/ /\ IsHttpUrl(Consumed)
                 /\ Len(channels') = Len(channels) + 1
                 /\ current_channel_info' = None
        /\ (IsHttpUrl(Consumed) /\ RecentMatched # {})
           => \E k \in RecentMatched :
                 /\ \A j \in RecentMatched : j <= k
                 /\ PairedAs(Strip(lines[k].name))]_vars

----------------------------------------------------------------------------
(* Further properties of the cache, checked under Spec *)

HttpSchemes == {"http://", "https://"}

WellFormed(rec, u) ==
    /\ rec.name # <<>>
    /\ rec.url[1] \in HttpSchemes
    /\ rec.original_m3u_url = u

\* C18: every record of a cache entry, and every record a call returns,
\* has a non-empty name, a http(s) stream URL and the entry's key as its
\* back-reference.
C18_RecordsWellFormed ==
    /\ \A u \in DOMAIN cache :
          \A i \in DOMAIN cache[u].channels :
             WellFormed(cache[u].channels[i], u)
    /\ \A t \in Tasks :
          \A i \in DOMAIN task[t].out.channels :
             WellFormed(task[t].out.channels[i], task[t].m3u_url)

\* both urls hold an entry with records, and a call has returned records
C18_Witness ==
    /\ \A u \in Urls : u \in DOMAIN cache /\ cache[u].channels # <<>>
    /\ \E t \in Tasks : Len(task[t].out.channels) = 2

Stale(c, u, t) ==
    u \in DOMAIN c /\ t - c[u].timestamp >= M3U_CACHE_SECONDS

\* C19: a call whose fetch fails leaves every entry, timestamp included, as
\* it was, so an entry that was stale is still stale, and a call that finds
\* a stale entry issues a new request.
C19_FailureKeepsEntry ==
    [][\A t \in Tasks :
        /\ GotFetchError(t)
           => (/\ cache' = cache
               /\ Stale(cache, task[t].m3u_url, now)
                  => Stale(cache', task[t].m3u_url, now'))
        /\ \A u \in Urls :
              (Entered(t, u) /\ Stale(cache, u, now))
              => (task'[t].pc = "fetching"
                  /\ fetches'[u] = fetches[u] + 1)]_vars

\* a call found a stale entry, fetched, failed and fell back; the entry is
\* the one the call found, timestamp included, and is still stale
C19_Witness ==
    \E t \in Tasks :
        /\ task[t].pc = "done"
        /\ task[t].out.line = 90
        /\ fetches[task[t].m3u_url] = 2
        /\ CacheGet(cache, task[t].m3u_url) = task[t].cached_data
        /\ Stale(cache, task[t].m3u_url, now)

----------------------------------------------------------------------------
(* Properties of browse and resolve, checked under SpecBrowse *)

Accepted(t, op) == request[t].pc = "idle" /\ request'[t].op = op

Configured(u) == \E i \in DOMAIN entries : entries[i].m3u_url = u

\* C13: resolve answers every identifier with the identifier itself as url
\* and the mime type application/x-mpegURL, issues no request and changes
\* neither the cache nor any call frame.
C13_ResolveIdentity ==
    [][\A t \in BrowseTasks :
        Accepted(t, "resolve")
        => (/\ request'[t].pc = "done"
            /\ request'[t].out.kind = "PlayMedia"
            /\ request'[t].out.url = request'[t].identifier[1]
            /\ request'[t].out.mime_type = "application/x-mpegURL"
            /\ cache' = cache /\ fetches' = fetches /\ task' = task)]_vars

\* an identifier that is neither configured nor a key of the non-empty
\* cache was resolved
C13_Witness ==
    \E t \in BrowseTasks :
        /\ request[t].pc = "done" /\ request[t].op = "resolve"
        /\ request[t].out.url = "http://gone/q.m3u"
        /\ ~Configured("http://gone/q.m3u")
        /\ cache # <<>>

\* C14: a browse request whose identifier is the m3u_url of no entry ends
\* with the BrowseError "source not found", without a request to the
\* network and without a change of the cache, whatever the cache holds.
C14_UnknownSource ==
    [][\A t \in BrowseTasks :
        (/\ Accepted(t, "browse")
         /\ request'[t].identifier # None
         /\ ~Configured(request'[t].identifier[1]))
        => (/\ request'[t].pc = "done"
            /\ request'[t].out.kind = "BrowseError"
            /\ request'[t].out.msg[1]
                 = "Configured IPTV source not found for URL: "
            /\ cache' = cache /\ fetches' = fetches /\ task' = task)]_vars

\* the identifier refused is a key of the cache
C14_Witness ==
    \E t \in BrowseTasks :
        /\ request[t].pc = "done" /\ request[t].op = "browse"
        /\ request[t].out.kind = "BrowseError"
        /\ request[t].identifier # None
        /\ ~Configured(request[t].identifier[1])
        /\ request[t].identifier[1] \in DOMAIN cache

\* the browse request of t ends in this step with async_parse_m3u having
\* raised an exception other than the cancellation of the request
ListChannelsFailed(t) ==
    /\ request[t].pc # "done" /\ request'[t].pc = "done"
    /\ request'[t].op = "browse"
    /\ task'[t].pc = "done"
    /\ task'[t].out.kind \notin {"return", "CancelledError"}

\* C15: when async_parse_m3u fails for a configured source, the browse
\* request ends with a BrowseError whose message has the friendly name of
\* the source and not the text of the exception raised inside.
C15_FailureIsBrowseError ==
    [][\A t \in BrowseTasks :
        ListChannelsFailed(t)
        => (/\ request'[t].out.kind = "BrowseError"
            /\ request'[t].title \in UserNames
            /\ request'[t].title \in Range(request'[t].out.msg)
            /\ task'[t].out.kind # "BrowseError"
               => \A x \in Range(task'[t].out.msg) :
                     x \notin Range(request'[t].out.msg))]_vars

\* the parser raised AttributeError and the request ended with BrowseError
C15_Witness ==
    \E t \in BrowseTasks :
        /\ request[t].pc = "done"
        /\ task[t].out.kind = "AttributeError"
        /\ request[t].out.kind = "BrowseError"

SameUrlEntries(u) == {i \in DOMAIN entries : entries[i].m3u_url = u}

ChildIds(out) == {out.children[i].identifier : i \in DOMAIN out.children}
StreamsOf(chans) == {chans[i].url : i \in DOMAIN chans}

\* C16: with two entries of the same m3u_url, a browse of that url made
\* while the entry stored for it is younger than 300 seconds issues no
\* request and lists the channels of that one entry.
C16_SharedEntry ==
    [][\A t \in BrowseTasks, u \in Urls :
        (/\ Accepted(t, "browse")
         /\ request'[t].identifier = Some(u)
         /\ Cardinality(SameUrlEntries(u)) >= 2
         /\ u \in DOMAIN cache
         /\ now - cache[u].timestamp < M3U_CACHE_SECONDS)
        => (/\ fetches' = fetches
            /\ cache' = cache
            /\ request'[t].pc = "done"
            /\ request'[t].out.kind = "BrowseMediaSource"
            /\ Len(request'[t].out.children) = Len(cache[u].channels)
            /\ ChildIds(request'[t].out) = StreamsOf(cache[u].channels))]_vars

\* two entries share the url; one request was made for it and the browse
\* just served came from the cache
C16_Witness ==
    \E t \in BrowseTasks, u \in Urls :
        /\ Cardinality(SameUrlEntries(u)) = 2
        /\ request[t].pc = "done"
        /\ request[t].identifier = Some(u)
        /\ task[t].out.line = 63
        /\ fetches[u] = 1
        /\ request[t].out.children # <<>>

\* C17: an entry of the cache is never removed, and it changes only by
\* being replaced when a fetch for its url has succeeded and been parsed.
C17_NeverRemoved ==
    [][/\ DOMAIN cache \subseteq DOMAIN cache'
       /\ \A u \in DOMAIN cache :
             cache'[u] # cache[u]
             => \E t \in Tasks :
                   /\ task[t].pc = "fetching" /\ task[t].m3u_url = u
                   /\ task'[t].out.line = 145
                   /\ cache'[u] = [timestamp |-> now,
                                   channels |-> task'[t].out.channels]]_vars

\* the cache still holds the entry of an url that no configuration entry
\* has any more
C17_Witness ==
    \E u \in DOMAIN cache :
        /\ ~Configured(u)
        /\ entries = <<>>
        /\ now - cache[u].timestamp >= M3U_CACHE_SECONDS

----------------------------------------------------------------------------
(* Properties of the channel listing, checked under SpecListing *)

\* the titles of the channel lists in the order of their code points
TitleOrder == <<<<"Channel">>, <<"Channel", WS, "One">>, <<"Two">>>>
TitleRank(title) == CHOOSE i \in DOMAIN TitleOrder : TitleOrder[i] = title

\* p tells, for each child, the record of chans it was made from: every
\* record once, titles never decreasing, and records of one title in the
\* order chans has them
StableTitleOrder(children, chans, p) ==
    /\ {p[i] : i \in DOMAIN p} = DOMAIN chans
    /\ \A i \in DOMAIN children :
          /\ children[i].identifier = chans[p[i]].url
          /\ children[i].title = chans[p[i]].name
    /\ \A i, j \in DOMAIN children :
          i < j => \/ TitleRank(children[i].title) < TitleRank(children[j].title)
                   \/ /\ children[i].title = children[j].title
                      /\ p[i] < p[j]

----------------------------------------------------------------------------
(* Properties of the config and options flows, checked under SpecFlow *)

\* the urls a user can submit that end, whatever the case of their
\* letters, with .m3u or .m3u8
SuffixedUrls == {"http://a/x.m3u", "HTTP://D/W.M3U8"}

CustomEntries ==
    {i \in DOMAIN entries : entries[i].source_type = SOURCE_CUSTOM_URL}

\* the step that gave result f was handed an url for a custom source, and
\* the url lacks the suffix
UnsuffixedSubmitted(f) ==
    /\ f.step \in {"custom_url", "init"}
    /\ f.source_type = SOURCE_CUSTOM_URL
    /\ f.user_input # None
    /\ f.user_input[1].m3u_url \notin SuffixedUrls

C23_Suffixed == \A i \in CustomEntries : entries[i].m3u_url \in SuffixedUrls

C23_FormAgain ==
    UnsuffixedSubmitted(flow) => (flow.type = "form" /\ flow.errors # "")

C23_NoEntryTouched ==
    (flow' # flow /\ UnsuffixedSubmitted(flow')) => entries' = entries

\* C23: whatever steps the config flow and the options flow have taken,
\* the m3u_url of every custom-url entry ends, case-insensitively, with
\* .m3u or .m3u8; a step that was handed an url without the suffix shows
\* its form again with an error and leaves the entries as they were.
C23_CustomUrlSuffixed ==
    [](C23_Suffixed /\ C23_FormAgain) /\ [][C23_NoEntryTouched]_vars

\* a custom entry holds an url in capitals that passed the test, and the
\* options flow has just turned an url down
C23_Witness ==
    /\ \E i \in CustomEntries : entries[i].m3u_url = "HTTP://D/W.M3U8"
    /\ flow.step = "init"
    /\ UnsuffixedSubmitted(flow)
    /\ flow.type = "form"

====
